---- MODULE Spec2Model ----
(***************************************************************************)
(* A model of adb_draw.py: the image-to-swipe pipeline of main() and       *)
(* process_image_and_draw(), with the adb executable, the candidate image  *)
(* files and the device as the environment.                                *)
(*                                                                         *)
(* Numbers.  The program computes the canvas size in double precision and  *)
(* truncates with int().  The model computes in the same binary64          *)
(* arithmetic: a product or quotient that is exactly an integer in the     *)
(* rationals can fall one ulp below it, and int() then yields one less.    *)
(*                                                                         *)
(* Text.  The output of "adb devices" is a sequence of code points.  The   *)
(* output of "adb shell wm size" is the presence of the "Physical size:"   *)
(* marker plus the fields that split("x") yields from the text after the   *)
(* last colon; each field either is an integer literal or is not.          *)
(*                                                                         *)
(* Raster.  The thresholded image is a sequence of rows of samples 0       *)
(* (foreground) and 255 (background).  Row r, column c of the program is   *)
(* binary_image[r + 1][c + 1] here.                                        *)
(***************************************************************************)
EXTENDS Integers, Sequences, FiniteSets, TLC

(* ------------------------- configuration ------------------------------ *)
DRAW_STEP == 5
SWIPE_DURATION_MS == 150
MIN_LINE_LENGTH_PX == 8
OFFSET_X_ADJUST == 60
OFFSET_Y_ADJUST == -160
TARGET_IMAGE_FORMATS == <<"image.png", "image.jpg">>

(* ---------------------------- bounds ---------------------------------- *)
\* Spec: the screens the device may report and the images imread may return
MaxScreenW == 3
MaxScreenH == 9
MaxImgW == 3
MaxImgH == 3
\* ScaleSpec: the sizes the scaling step is applied to
MaxScaleScreenW == 12
MaxScaleScreenH == 90
MaxScaleImg == 7
\* ScanSpec: the width and the height of the scanned canvas
MaxScanW == 5
MaxScanH == 6
\* LineSpec: the largest |x2 - x1| and |y2 - y1| handed to draw_single_line
MaxDelta == 9

FG == 0
BG == 255

(* ----------------------- double precision ----------------------------- *)
(* A Python float is an IEEE 754 binary64 number s * m * 2^e: a sign s, an *)
(* integer significand m of exactly MANT_DIG bits (or 0) and an exponent   *)
(* e.  The significand is a sequence of limbs below LimbBase, the least    *)
(* significant first.  Every operation yields the exact result rounded to  *)
(* the nearest such number, a tie going to the even significand.  The      *)
(* integer operands of the program are below 2^16 in absolute value.       *)
MANT_DIG == 53
LimbBits == 14
LimbBase == 2^LimbBits

RECURSIVE Limbs(_)
\* the limbs of a natural number
Limbs(n) == IF n = 0 THEN <<>> ELSE <<n % LimbBase>> \o Limbs(n \div LimbBase)

RECURSIVE LimbsValue(_)
\* the natural number a sequence of limbs stands for
LimbsValue(N) == IF N = <<>> THEN 0 ELSE N[1] + LimbBase * LimbsValue(Tail(N))

RECURSIVE MulSmall(_, _, _)
\* N * n + carry
MulSmall(N, n, carry) ==
    IF N = <<>> THEN Limbs(carry)
    ELSE LET t == N[1] * n + carry
         IN  <<t % LimbBase>> \o MulSmall(Tail(N), n, t \div LimbBase)

RECURSIVE DivSmall(_, _, _)
\* quotient q and remainder r of (rem * LimbBase^Len(N) + N) divided by n
DivSmall(N, n, rem) ==
    IF N = <<>> THEN [q |-> <<>>, r |-> rem]
    ELSE LET k == Len(N)
             t == rem * LimbBase + N[k]
             rest == DivSmall(SubSeq(N, 1, k - 1), n, t % n)
         IN  [q |-> Append(rest.q, t \div n), r |-> rest.r]

RECURSIVE BitLenInt(_)
\* int.bit_length()
BitLenInt(v) == IF v = 0 THEN 0 ELSE 1 + BitLenInt(v \div 2)

RECURSIVE BitLen(_)
BitLen(N) ==
    IF N = <<>> THEN 0
    ELSE IF N[Len(N)] = 0 THEN BitLen(SubSeq(N, 1, Len(N) - 1))
    ELSE LimbBits * (Len(N) - 1) + BitLenInt(N[Len(N)])

RECURSIVE ShiftLeft(_, _)
\* N * 2^k
ShiftLeft(N, k) ==
    IF k >= LimbBits THEN <<0>> \o ShiftLeft(N, k - LimbBits)
    ELSE MulSmall(N, 2^k, 0)

RECURSIVE ShiftRight(_, _)
\* floor(N / 2^k), and whether a non-zero bit was shifted out
ShiftRight(N, k) ==
    IF N = <<>> \/ k = 0 THEN [q |-> N, sticky |-> FALSE]
    ELSE IF k >= LimbBits
         THEN LET rest == ShiftRight(Tail(N), k - LimbBits)
              IN  [q |-> rest.q, sticky |-> rest.sticky \/ N[1] # 0]
         ELSE LET d == DivSmall(N, 2^k, 0)
              IN  [q |-> d.q, sticky |-> d.r # 0]

IsOdd(N) == N # <<>> /\ N[1] % 2 = 1

\* the float nearest to s * (N + f) * 2^e, with 0 < f < 1 when inexact and
\* f = 0 otherwise: round to nearest, ties to even
Rounded(s, N, e, inexact) ==
    LET len == BitLen(N)
    IN  IF len = 0 THEN [s |-> s, m |-> <<>>, e |-> 0]
        ELSE IF len <= MANT_DIG
        THEN [s |-> s, m |-> ShiftLeft(N, MANT_DIG - len),
              e |-> e - (MANT_DIG - len)]
        ELSE LET k == len - MANT_DIG
                 low == ShiftRight(N, k - 1)
                 guard == IsOdd(low.q)
                 q == DivSmall(low.q, 2, 0).q
                 up == guard /\ (low.sticky \/ inexact \/ IsOdd(q))
                 m1 == IF up THEN MulSmall(q, 1, 1) ELSE q
             IN  IF BitLen(m1) > MANT_DIG
                 THEN [s |-> s, m |-> DivSmall(m1, 2, 0).q, e |-> e + k + 1]
                 ELSE [s |-> s, m |-> m1, e |-> e + k]

Abs(a) == IF a < 0 THEN -a ELSE a

\* float(a) for an integer a
Float(a) == Rounded(IF a < 0 THEN -1 ELSE 1, Limbs(Abs(a)), 0, FALSE)

\* n * x for an integer n and a float x
FloatMul(n, x) ==
    Rounded(IF n < 0 THEN -x.s ELSE x.s, MulSmall(x.m, Abs(n), 0), x.e, FALSE)

\* x / n for a float x and an integer n > 0
FloatDiv(x, n) ==
    LET k == BitLenInt(n) + 1
        d == DivSmall(ShiftLeft(x.m, k), n, 0)
    IN  Rounded(x.s, d.q, x.e - k, d.r # 0)

\* the integer part of |x|, and whether |x| has a fraction
Whole(x) ==
    IF x.e >= 0 THEN [q |-> ShiftLeft(x.m, x.e), sticky |-> FALSE]
    ELSE ShiftRight(x.m, -x.e)

\* int(x): truncation toward zero
Trunc(x) == x.s * LimbsValue(Whole(x).q)

\* h > x for an integer h and a float x
IntGreater(h, x) ==
    LET w == Whole(x)
        v == LimbsValue(w.q)
    IN  IF x.s > 0 THEN h > v
        ELSE IF w.sticky THEN h >= -v ELSE h > -v

\* the literals 0.1 and 0.7: the floats nearest to 1/10 and to 7/10
SCREEN_MARGIN_RATIO == FloatDiv(Float(1), 10)
MAX_CANVAS_HEIGHT_RATIO == FloatDiv(Float(7), 10)

(* ------------------------ pure functions ------------------------------ *)
\* int(screen_width * SCREEN_MARGIN_RATIO)
ScreenMargin(sw) == Trunc(FloatMul(sw, SCREEN_MARGIN_RATIO))

InitialCanvasWidthGrow(sw) == sw + 2 * ScreenMargin(sw)

\* screen_width - 2 * screen_margin
InitialCanvasWidth(sw) == sw - 2 * ScreenMargin(sw)

\* numerator / img_size: the scale factor
ScaleFactor(numerator, size) == FloatDiv(numerator, size)

\* round(size * scale_factor), half up
ScaledDimRound(size, scale_factor) ==
    (Trunc(FloatMul(2 * size, scale_factor)) + 1) \div 2

\* int(size * scale_factor)
ScaledDim(size, scale_factor) == Trunc(FloatMul(size, scale_factor))

\* scaled_height > screen_height * MAX_CANVAS_HEIGHT_RATIO
ExceedsMaxHeight(h, sh) == IntGreater(h, FloatMul(sh, MAX_CANVAS_HEIGHT_RATIO))

\* step 5 of process_image_and_draw: (canvas width, canvas height, margin)
Scale(sw, sh, iw, ih) ==
    LET cw0 == InitialCanvasWidth(sw)
        h0  == ScaledDim(ih, ScaleFactor(Float(cw0), iw))
    IN  IF ExceedsMaxHeight(h0, sh)
        THEN LET sf  == ScaleFactor(FloatMul(sh, MAX_CANVAS_HEIGHT_RATIO), ih)
                 h1  == ScaledDim(ih, sf)
                 cw1 == ScaledDim(iw, sf)
             IN  [width |-> cw1, height |-> h1,
                  margin |-> (sw - cw1) \div 2, limited |-> "height"]
        ELSE [width |-> cw0, height |-> h0,
              margin |-> ScreenMargin(sw), limited |-> "width"]

DrawOffsetXLeft(margin) == margin - OFFSET_X_ADJUST

\* draw_offset_x = screen_margin + OFFSET_X_ADJUST
DrawOffsetX(margin) == margin + OFFSET_X_ADJUST

\* draw_offset_y = (screen_height - scaled_height) // 2 + OFFSET_Y_ADJUST
DrawOffsetY(sh, h) == (sh - h) \div 2 + OFFSET_Y_ADJUST

\* math.hypot(x2 - x1, y2 - y1) < MIN_LINE_LENGTH_PX, for integer arguments
TooShort(l) ==
    (l.x2 - l.x1) * (l.x2 - l.x1) + (l.y2 - l.y1) * (l.y2 - l.y1)
        < MIN_LINE_LENGTH_PX * MIN_LINE_LENGTH_PX

ExtendedFromEnd(l) ==
    IF TooShort(l) THEN [l EXCEPT !.x2 = l.x2 + MIN_LINE_LENGTH_PX] ELSE l

\* the minimum-length rule of draw_single_line: x2 = x1 + MIN_LINE_LENGTH_PX
Extended(l) ==
    IF TooShort(l) THEN [l EXCEPT !.x2 = l.x1 + MIN_LINE_LENGTH_PX] ELSE l

EndColInclusive(col) == col

\* end_col = col_idx - 1 when the inner while stops at col_idx
EndCol(col) == col - 1

NextColStuck(col) == col

\* col_idx += 1
NextCol(col) == col + 1

NextRowByOne(row) == row + 1

\* range(0, scaled_height, DRAW_STEP): the row after row
NextRow(row) == row + DRAW_STEP

\* find_target_image_path: the first candidate that exists, "" for None
FindTargetImagePath(files) ==
    IF \E i \in 1..Len(TARGET_IMAGE_FORMATS) : TARGET_IMAGE_FORMATS[i] \in files
    THEN TARGET_IMAGE_FORMATS[
             CHOOSE i \in 1..Len(TARGET_IMAGE_FORMATS) :
                 /\ TARGET_IMAGE_FORMATS[i] \in files
                 /\ \A j \in 1..(i - 1) : TARGET_IMAGE_FORMATS[j] \notin files]
    ELSE ""

(* Text is a sequence of characters, each the number of its code point. *)
\* the characters str.strip() removes: those for which str.isspace() holds
Whitespace ==
    (9..13) \cup (28..32) \cup {133, 160, 5760} \cup (8192..8202)
    \cup {8232, 8233, 8239, 8287, 12288}
\* "\t" and "\n"
Tab == <<9>>
Newline == <<10>>

\* str.strip()
Strip(text) ==
    LET kept == {i \in 1..Len(text) : text[i] \notin Whitespace}
    IN  IF kept = {} THEN <<>>
        ELSE SubSeq(text, CHOOSE i \in kept : \A j \in kept : i <= j,
                          CHOOSE i \in kept : \A j \in kept : i >= j)

\* the positions at which part occurs in text
Occurrences(text, part) ==
    {i \in 1..(Len(text) - Len(part) + 1) : SubSeq(text, i, i + Len(part) - 1) = part}

RECURSIVE Remove(_, _)
\* text.replace(old, ""), old not empty: the occurrences from left to right
Remove(text, old) ==
    LET found == Occurrences(text, old)
    IN  IF found = {} THEN text
        ELSE LET first == CHOOSE i \in found : \A j \in found : i <= j
             IN  SubSeq(text, 1, first - 1)
                 \o Remove(SubSeq(text, first + Len(old), Len(text)), old)

\* part in text
Contains(text, part) == Occurrences(text, part) # {}

\* "List of devices attached"
Header ==
    <<76, 105, 115, 116, 32, 111, 102, 32, 100, 101, 118, 105, 99, 101, 115, 32,
      97, 116, 116, 97, 99, 104, 101, 100>>
\* "device"
DeviceWord == <<100, 101, 118, 105, 99, 101>>

\* "device" in device_list.replace("List of devices attached", "").strip()
HasDeviceWord(device_list) ==
    Contains(Strip(Remove(device_list, Header)), DeviceWord)

(* "adb shell wm size": a field is an integer literal or is not *)
Num(v) == [num |-> TRUE, val |-> v]
Junk == [num |-> FALSE, val |-> 0]
NoResolution == [ok |-> FALSE, width |-> 0, height |-> 0]
ParseResolutionLenient(out) ==
    IF ~out.marker \/ Len(out.fields) < 2 THEN NoResolution
    ELSE IF ~out.fields[1].num \/ ~out.fields[2].num THEN NoResolution
    ELSE [ok |-> TRUE, width |-> out.fields[1].val, height |-> out.fields[2].val]

\* get_device_screen_resolution: (width, height) or (None, None)
ParseResolution(out) ==
    IF ~out.marker THEN NoResolution
    ELSE IF Len(out.fields) # 2 THEN NoResolution
    ELSE IF ~out.fields[1].num \/ ~out.fields[2].num THEN NoResolution
    ELSE [ok |-> TRUE, width |-> out.fields[1].val, height |-> out.fields[2].val]

\* "not screen_width or not screen_height"
ResolutionRejected(res) == ~res.ok \/ res.width = 0 \/ res.height = 0

(* ------------------------- input domains ------------------------------ *)
Rows(w) == [1..w -> {FG, BG}]
\* the rows the loop scans are arbitrary; the rows between them are uniform
Rasters(w, h) ==
    IF h <= 0 \/ w <= 0 THEN {<<>>}
    ELSE { [r \in 1..h |->
               IF (r - 1) % DRAW_STEP = 0
               THEN f[((r - 1) \div DRAW_STEP) + 1]
               ELSE [c \in 1..w |-> fill]] :
           f \in [1..(((h - 1) \div DRAW_STEP) + 1) -> Rows(w)],
           fill \in {FG, BG} }

\* the standard output of "adb devices": a device in the state "device" when
\* one is connected; else nothing, the header alone, or a device that is
\* unauthorized or offline
\* the serials "emu-1" and "mydevice", the states "unauthorized" and "offline"
Emulator == <<101, 109, 117, 45, 49>>
MyDevice == <<109, 121, 100, 101, 118, 105, 99, 101>>
Unauthorized == <<117, 110, 97, 117, 116, 104, 111, 114, 105, 122, 101, 100>>
Offline == <<111, 102, 102, 108, 105, 110, 101>>
DeviceLine(serial, state) == Newline \o serial \o Tab \o state
DeviceOutputs(conn) ==
    IF conn THEN {Header \o DeviceLine(Emulator, DeviceWord) \o Newline \o Newline}
    ELSE {<<>>, Header \o Newline \o Newline,
          Header \o DeviceLine(Emulator, Unauthorized),
          Header \o DeviceLine(MyDevice, Offline)}

SizeFields ==
    {<<Num(w), Num(h)>> : w \in (-1)..MaxScreenW, h \in 0..MaxScreenH}
    \cup {<<Num(MaxScreenW)>>, <<Junk, Num(MaxScreenH)>>, <<Num(MaxScreenW), Junk>>,
          <<Num(MaxScreenW), Num(MaxScreenH), Num(1)>>}
SizeOutputs(conn) ==
    IF conn
    THEN {[marker |-> TRUE, fields |-> f] : f \in SizeFields}
         \cup {[marker |-> FALSE, fields |-> <<Num(MaxScreenW), Num(MaxScreenH)>>]}
    ELSE {[marker |-> FALSE, fields |-> <<>>]}

NoLine == [x1 |-> 0, y1 |-> 0, x2 |-> 0, y2 |-> 0]

(* ----------------------------- state ---------------------------------- *)
VARIABLES
    \* environment
    adbPresent, imageFiles, decodable, connected, deviceOut, sizeOut,
    \* program
    pc, image_path, screen_width, screen_height, img_width, img_height,
    screen_margin, scaled_width, scaled_height, binary_image,
    draw_offset_x, draw_offset_y, row_idx, col_idx, start_col, line,
    total_lines_drawn,
    \* observation
    adbLog, segments, firstFailed, outcome, adbAtStart

envVars == <<adbPresent, imageFiles, decodable, connected, deviceOut, sizeOut>>
geomVars == <<screen_width, screen_height, img_width, img_height,
              screen_margin, scaled_width, scaled_height>>
scanVars == <<binary_image, draw_offset_x, draw_offset_y, row_idx, col_idx,
              start_col, line, total_lines_drawn>>
obsVars == <<adbLog, segments, firstFailed, adbAtStart>>
vars == <<envVars, pc, image_path, geomVars, scanVars, obsVars, outcome>>

Terminal == {"done", "returned", "exit1", "crashed"}

Pixel(row, col) == binary_image[row + 1][col + 1]

ProgramStart ==
    /\ image_path = ""
    /\ screen_width = 0 /\ screen_height = 0
    /\ img_width = 0 /\ img_height = 0
    /\ screen_margin = 0 /\ scaled_width = 0 /\ scaled_height = 0
    /\ binary_image = <<>>
    /\ draw_offset_x = 0 /\ draw_offset_y = 0
    /\ row_idx = 0 /\ col_idx = 0 /\ start_col = 0
    /\ line = NoLine
    /\ total_lines_drawn = 0
    /\ adbLog = <<>> /\ segments = <<>>
    /\ firstFailed = 0
    /\ outcome = ""

Init ==
    /\ pc = "main"
    /\ adbPresent \in BOOLEAN
    /\ adbAtStart = adbPresent
    /\ imageFiles \in SUBSET {"image.png", "image.jpg"}
    /\ decodable \in BOOLEAN
    /\ connected \in BOOLEAN
    /\ deviceOut \in DeviceOutputs(connected)
    /\ sizeOut \in SizeOutputs(connected)
    /\ ProgramStart

(* ---------------------------- actions --------------------------------- *)
LaunchSkipped(log, command) == log

\* subprocess.run: the command line handed to the adb process
Launch(log, command) == Append(log, command)

\* execute_adb_command when the executable cannot be launched: sys.exit(1)
AdapterUnavailable ==
    /\ pc' = "exit1"
    /\ outcome' = "AdapterUnavailable"

Return(reason) ==
    /\ pc' = "returned"
    /\ outcome' = reason

\* main(): find the image, exit(1) when there is none
FindImage ==
    /\ pc = "main"
    /\ LET path == FindTargetImagePath(imageFiles)
       IN  IF path = ""
           THEN /\ pc' = "exit1"
                /\ outcome' = "ImageNotFound"
                /\ UNCHANGED image_path
           ELSE /\ pc' = "devices"
                /\ image_path' = path
                /\ UNCHANGED outcome
    /\ UNCHANGED <<envVars, geomVars, scanVars, obsVars>>

\* step 1: the connected-devices query and its gate
CheckDevices ==
    /\ pc = "devices"
    /\ IF ~adbPresent
       THEN AdapterUnavailable /\ UNCHANGED adbLog
       ELSE /\ adbLog' = Launch(adbLog, [cmd |-> "devices"])
            /\ IF HasDeviceWord(Strip(deviceOut))
               THEN pc' = "resolution" /\ UNCHANGED outcome
               ELSE Return("NoDeviceConnected")
    /\ UNCHANGED <<envVars, image_path, geomVars, scanVars,
                   segments, firstFailed, adbAtStart>>

\* step 2: the screen-resolution query and its gate
GetResolution ==
    /\ pc = "resolution"
    /\ IF ~adbPresent
       THEN /\ AdapterUnavailable
            /\ UNCHANGED <<adbLog, screen_width, screen_height>>
       ELSE /\ adbLog' = Launch(adbLog, [cmd |-> "wm size"])
            /\ LET res == ParseResolution(sizeOut)
               IN  IF ResolutionRejected(res)
                   THEN /\ Return("ResolutionUnavailable")
                        /\ UNCHANGED <<screen_width, screen_height>>
                   ELSE /\ pc' = "exists"
                        /\ screen_width' = res.width
                        /\ screen_height' = res.height
                        /\ UNCHANGED outcome
    /\ UNCHANGED <<envVars, image_path, img_width, img_height, screen_margin,
                   scaled_width, scaled_height, scanVars,
                   segments, firstFailed, adbAtStart>>

\* step 3: os.path.exists(image_path)
CheckImageExists ==
    /\ pc = "exists"
    /\ IF image_path \in imageFiles
       THEN pc' = "imread" /\ UNCHANGED outcome
       ELSE Return("ImageMissing")
    /\ UNCHANGED <<envVars, image_path, geomVars, scanVars, obsVars>>

\* step 4: cv2.imread, None for a file that is gone or cannot be decoded
ReadImage ==
    /\ pc = "imread"
    /\ IF image_path \notin imageFiles \/ ~decodable
       THEN /\ Return("ImageUnreadable")
            /\ UNCHANGED <<img_width, img_height>>
       ELSE /\ \E iw \in 1..MaxImgW, ih \in 1..MaxImgH :
                 img_width' = iw /\ img_height' = ih
            /\ pc' = "scale"
            /\ UNCHANGED outcome
    /\ UNCHANGED <<envVars, image_path, screen_width, screen_height,
                   screen_margin, scaled_width, scaled_height, scanVars, obsVars>>

\* step 5: the canvas size
ScaleStep ==
    /\ pc = "scale"
    /\ LET g == Scale(screen_width, screen_height, img_width, img_height)
       IN  /\ scaled_width' = g.width
           /\ scaled_height' = g.height
           /\ screen_margin' = g.margin
    /\ pc' = "binarize"
    /\ UNCHANGED <<envVars, image_path, screen_width, screen_height,
                   img_width, img_height, scanVars, obsVars, outcome>>

\* step 6: cv2.resize raises for an empty canvas; else the thresholded raster
Binarize ==
    /\ pc = "binarize"
    /\ IF scaled_width <= 0 \/ scaled_height <= 0
       THEN /\ pc' = "crashed"
            /\ outcome' = "ResizeError"
            /\ UNCHANGED binary_image
       ELSE /\ binary_image' \in Rasters(scaled_width, scaled_height)
            /\ pc' = "offsets"
            /\ UNCHANGED outcome
    /\ UNCHANGED <<envVars, image_path, geomVars, draw_offset_x, draw_offset_y,
                   row_idx, col_idx, start_col, line, total_lines_drawn, obsVars>>

\* steps 7 to 9: the drawing offsets, the counter, the first row
StartDrawing ==
    /\ pc = "offsets"
    /\ draw_offset_x' = DrawOffsetX(screen_margin)
    /\ draw_offset_y' = DrawOffsetY(screen_height, scaled_height)
    /\ total_lines_drawn' = 0
    /\ row_idx' = 0
    /\ pc' = "for"
    /\ UNCHANGED <<envVars, image_path, geomVars, binary_image, col_idx,
                   start_col, line, obsVars, outcome>>

\* the for loop: the next row of the stride, or the end of the loop
ForRow ==
    /\ pc = "for"
    /\ IF row_idx < scaled_height
       THEN pc' = "while" /\ col_idx' = 0
       ELSE pc' = "stats" /\ UNCHANGED col_idx
    /\ UNCHANGED <<envVars, image_path, geomVars, binary_image, draw_offset_x,
                   draw_offset_y, row_idx, start_col, line, total_lines_drawn,
                   obsVars, outcome>>

\* the outer while: a background sample is skipped, a foreground one opens a run
WhileCol ==
    /\ pc = "while"
    /\ IF col_idx < scaled_width
       THEN IF Pixel(row_idx, col_idx) = FG
            THEN /\ start_col' = col_idx
                 /\ pc' = "inner"
                 /\ UNCHANGED <<col_idx, row_idx>>
            ELSE /\ col_idx' = NextCol(col_idx)
                 /\ UNCHANGED <<pc, start_col, row_idx>>
       ELSE /\ row_idx' = NextRow(row_idx)
            /\ pc' = "for"
            /\ UNCHANGED <<col_idx, start_col>>
    /\ UNCHANGED <<envVars, image_path, geomVars, binary_image, draw_offset_x,
                   draw_offset_y, line, total_lines_drawn, obsVars, outcome>>

\* the inner while: extend the run, then close it and map it to the screen
InnerRun ==
    /\ pc = "inner"
    /\ IF col_idx < scaled_width /\ Pixel(row_idx, col_idx) = FG
       THEN /\ col_idx' = NextCol(col_idx)
            /\ UNCHANGED <<pc, line, segments>>
       ELSE LET end_col == EndCol(col_idx)
            IN  /\ segments' = Append(segments,
                       [row |-> row_idx, startCol |-> start_col, endCol |-> end_col])
                /\ line' = [x1 |-> draw_offset_x + start_col,
                            y1 |-> draw_offset_y + row_idx,
                            x2 |-> draw_offset_x + end_col,
                            y2 |-> draw_offset_y + row_idx]
                /\ pc' = "draw"
                /\ UNCHANGED col_idx
    /\ UNCHANGED <<envVars, image_path, geomVars, binary_image, draw_offset_x,
                   draw_offset_y, row_idx, start_col, total_lines_drawn,
                   adbLog, firstFailed, adbAtStart, outcome>>

NonZeroStatusAborts(status) == status # 0

\* execute_adb_command never reads the exit status of the adb process
StatusAborts(status) == FALSE

\* draw_single_line and the swipe it dispatches; the counter goes up after it
DrawSingleLine ==
    /\ pc = "draw"
    /\ IF ~adbPresent
       THEN /\ AdapterUnavailable
            /\ UNCHANGED <<adbLog, firstFailed, total_lines_drawn>>
       ELSE \E status \in {0, 1} :
                LET sent == Extended(line)
                IN  /\ adbLog' = Launch(adbLog,
                           [cmd |-> "swipe",
                            x1 |-> sent.x1, y1 |-> sent.y1,
                            x2 |-> sent.x2, y2 |-> sent.y2,
                            duration |-> SWIPE_DURATION_MS])
                    /\ firstFailed' = IF firstFailed = 0 /\ status # 0
                                       THEN Len(adbLog) + 1 ELSE firstFailed
                    /\ IF StatusAborts(status)
                       THEN /\ pc' = "exit1"
                            /\ outcome' = "DispatchFailed"
                            /\ UNCHANGED total_lines_drawn
                       ELSE /\ total_lines_drawn' = total_lines_drawn + 1
                            /\ pc' = "while"
                            /\ UNCHANGED outcome
    /\ UNCHANGED <<envVars, image_path, geomVars, binary_image, draw_offset_x,
                   draw_offset_y, row_idx, col_idx, start_col, line,
                   segments, adbAtStart>>

\* step 10: the total and the elapsed time are printed; the average that
\* follows divides by the elapsed time, which can be 0.0 on a coarse clock
\* when no swipe (and so no pause) happened
ReportStats ==
    /\ pc = "stats"
    /\ pc' = "done"
    /\ outcome' \in IF total_lines_drawn = 0
                    THEN {"Completed", "ZeroDivisionError"}
                    ELSE {"Completed"}
    /\ UNCHANGED <<envVars, image_path, geomVars, scanVars, obsVars>>

\* the environment: the adb executable disappears while the program runs
RemoveAdb ==
    /\ pc \notin Terminal \cup {"main", "stats"}
    /\ adbPresent
    /\ adbPresent' = FALSE
    /\ UNCHANGED <<imageFiles, decodable, connected, deviceOut, sizeOut, pc,
                   image_path, geomVars, scanVars, obsVars, outcome>>

\* the environment: the image found by main() is deleted before it is read
RemoveImage ==
    /\ pc \in {"devices", "resolution", "exists", "imread"}
    /\ image_path \in imageFiles
    /\ imageFiles' = imageFiles \ {image_path}
    /\ UNCHANGED <<adbPresent, decodable, connected, deviceOut, sizeOut, pc,
                   image_path, geomVars, scanVars, obsVars, outcome>>

Loop == ForRow \/ WhileCol \/ InnerRun \/ DrawSingleLine
Prog ==
    \/ FindImage \/ CheckDevices \/ GetResolution \/ CheckImageExists
    \/ ReadImage \/ ScaleStep \/ Binarize \/ StartDrawing \/ Loop \/ ReportStats
Env == RemoveAdb \/ RemoveImage
Next == Prog \/ Env

Spec == Init /\ [][Next]_vars
\* every adb call returns and the interpreter keeps running the drawing loop
\* and the statistics step after it
FairSpec == Init /\ [][Next]_vars /\ WF_vars(Loop \/ ReportStats)

(* ------------------- the scaling step on its own ---------------------- *)
\* the state before step 5, for every screen and image size of the bounds
ScaleInit ==
    /\ pc = "scale"
    /\ adbPresent = TRUE /\ adbAtStart = TRUE
    /\ imageFiles = {"image.png"} /\ decodable = TRUE /\ connected = TRUE
    /\ deviceOut \in DeviceOutputs(TRUE)
    /\ image_path = "image.png"
    /\ screen_width \in 1..MaxScaleScreenW
    /\ screen_height \in 1..MaxScaleScreenH
    /\ sizeOut = [marker |-> TRUE,
                  fields |-> <<Num(screen_width), Num(screen_height)>>]
    /\ img_width \in 1..MaxScaleImg
    /\ img_height \in 1..MaxScaleImg
    /\ screen_margin = 0 /\ scaled_width = 0 /\ scaled_height = 0
    /\ binary_image = <<>>
    /\ draw_offset_x = 0 /\ draw_offset_y = 0
    /\ row_idx = 0 /\ col_idx = 0 /\ start_col = 0
    /\ line = NoLine
    /\ total_lines_drawn = 0
    /\ adbLog = <<[cmd |-> "devices"], [cmd |-> "wm size"]>>
    /\ segments = <<>>
    /\ firstFailed = 0
    /\ outcome = ""
ScaleSpec == ScaleInit /\ [][ScaleStep]_vars

(* --------------------- the row scan on its own ------------------------ *)
\* the state after step 6 for an image as wide as the screen and half as
\* high, which the scaling step leaves at its own size
ScanInit ==
    /\ pc = "offsets"
    /\ adbPresent = TRUE /\ adbAtStart = TRUE
    /\ imageFiles = {"image.png"} /\ decodable = TRUE /\ connected = TRUE
    /\ deviceOut \in DeviceOutputs(TRUE)
    /\ image_path = "image.png"
    /\ screen_width \in 1..MaxScanW
    /\ img_height \in 1..MaxScanH
    /\ screen_height = 2 * img_height
    /\ sizeOut = [marker |-> TRUE,
                  fields |-> <<Num(screen_width), Num(screen_height)>>]
    /\ img_width = screen_width
    /\ LET g == Scale(screen_width, screen_height, img_width, img_height)
       IN  /\ scaled_width = g.width
           /\ scaled_height = g.height
           /\ screen_margin = g.margin
    /\ binary_image \in Rasters(scaled_width, scaled_height)
    /\ draw_offset_x = 0 /\ draw_offset_y = 0
    /\ row_idx = 0 /\ col_idx = 0 /\ start_col = 0
    /\ line = NoLine
    /\ total_lines_drawn = 0
    /\ adbLog = <<[cmd |-> "devices"], [cmd |-> "wm size"]>>
    /\ segments = <<>>
    /\ firstFailed = 0
    /\ outcome = ""
ScanNext == StartDrawing \/ Loop \/ ReportStats
ScanSpec == ScanInit /\ [][ScanNext]_vars

(* ------------------- draw_single_line on its own ---------------------- *)
\* a call of draw_single_line with integer arguments
LineInit ==
    /\ pc = "draw"
    /\ adbPresent = TRUE /\ adbAtStart = TRUE
    /\ imageFiles = {"image.png"} /\ decodable = TRUE /\ connected = TRUE
    /\ deviceOut \in DeviceOutputs(TRUE)
    /\ sizeOut = [marker |-> TRUE, fields |-> <<Num(1), Num(1)>>]
    /\ image_path = "image.png"
    /\ screen_width = 1 /\ screen_height = 1
    /\ img_width = 1 /\ img_height = 1
    /\ screen_margin = 0 /\ scaled_width = 1 /\ scaled_height = 1
    /\ binary_image = <<<<FG>>>>
    /\ draw_offset_x = 0 /\ draw_offset_y = 0
    /\ row_idx = 0 /\ col_idx = 1 /\ start_col = 0
    /\ \E x \in 0..1, y \in 0..1,
          dx \in (-MaxDelta)..MaxDelta, dy \in (-MaxDelta)..MaxDelta :
            line = [x1 |-> x, y1 |-> y, x2 |-> x + dx, y2 |-> y + dy]
    /\ total_lines_drawn = 0
    /\ adbLog = <<>>
    /\ segments = <<>>
    /\ firstFailed = 0
    /\ outcome = ""
LineSpec == LineInit /\ [][DrawSingleLine]_vars

(* ------------------------ derived observations ------------------------ *)
IsSwipe(c) == c.cmd = "swipe"
Swipes == SelectSeq(adbLog, IsSwipe)
LoopEntered == binary_image # <<>>

\* the maximal runs of foreground samples of a row, as (startCol, endCol)
MaximalRuns(row) ==
    LET w == Len(row)
    IN  { p \in (0..(w - 1)) \X (0..(w - 1)) :
            /\ p[1] <= p[2]
            /\ \A c \in p[1]..p[2] : row[c + 1] = FG
            /\ (p[1] = 0 \/ row[p[1]] = BG)
            /\ (p[2] = w - 1 \/ row[p[2] + 2] = BG) }

\* the rows of the stride
ScannedRows == { r \in 0..(scaled_height - 1) : r % DRAW_STEP = 0 }
TotalRuns ==
    LET RECURSIVE Sum(_)
        Sum(S) == IF S = {} THEN 0
                  ELSE LET r == CHOOSE x \in S : TRUE
                       IN  Cardinality(MaximalRuns(binary_image[r + 1]))
                           + Sum(S \ {r})
    IN  Sum(ScannedRows)

SegmentsOfRow(r) ==
    LET OfRow(g) == g.row = r IN SelectSeq(segments, OfRow)

(* ------------------------------ claims -------------------------------- *)

\* C1: the segments the row scan yields for a scanned row are exactly the
\* maximal runs of foreground samples of that row, each once, left to right,
\* with 0 <= startCol <= endCol < canvasWidth, never overlapping and never
\* merged across a background sample; while a row is being scanned the
\* segments yielded so far are the maximal runs that end before col_idx.
C1_SegmentsAreMaximalRuns ==
    LoopEntered /\ pc \in {"for", "while", "stats", "done"} =>
        \A r \in ScannedRows :
            LET segs == SegmentsOfRow(r)
                runs == MaximalRuns(binary_image[r + 1])
                done == IF r < row_idx THEN runs
                        ELSE IF r = row_idx /\ pc = "while"
                             THEN { p \in runs : p[2] < col_idx }
                             ELSE {}
            IN  /\ { <<segs[i].startCol, segs[i].endCol>> : i \in 1..Len(segs) } = done
                /\ Len(segs) = Cardinality(done)
                /\ \A i \in 1..Len(segs) :
                       /\ 0 <= segs[i].startCol
                       /\ segs[i].startCol <= segs[i].endCol
                       /\ segs[i].endCol < scaled_width
                /\ \A i \in 1..(Len(segs) - 1) :
                       segs[i].endCol + 1 < segs[i + 1].startCol
\* the row [FG, FG, BG, BG, FG] has been scanned and gave (0,1) and (4,4)
C1_Witness ==
    /\ pc = "stats"
    /\ binary_image = <<<<FG, FG, BG, BG, FG>>>>
    /\ segments = <<[row |-> 0, startCol |-> 0, endCol |-> 1],
                    [row |-> 0, startCol |-> 4, endCol |-> 4]>>

\* C2: for positive source and screen sizes the scaling step yields
\* canvasWidth <= screenWidth and canvasHeight <= ceil(screenHeight * 0.7),
\* in the width-limited and in the height-limited branch.
C2_CanvasFitsScreen ==
    pc = "binarize" =>
        /\ scaled_width <= screen_width
        /\ 10 * scaled_height < 7 * screen_height + 10
\* the height-limited branch has shrunk a canvas of at least two rows
C2_Witness ==
    /\ pc = "binarize"
    /\ scaled_width < screen_width - 2 * (screen_width \div 10)
    /\ scaled_height >= 2
    /\ screen_width >= 10

\* C3 as stated: the canvas size is that of the reference algorithm with
\* round to nearest (a tie may go to either neighbour): canvasHeight is a
\* nearest integer of sourceHeight * canvasWidth / sourceWidth; when that
\* exceeds 0.7 * screenHeight, canvasHeight and canvasWidth are nearest
\* integers of 0.7 * screenHeight and of sourceWidth * 0.7 * screenHeight /
\* sourceHeight and marginPx = floor((screenWidth - canvasWidth) / 2).
C3_Orig_RoundToNearest ==
    pc = "binarize" =>
        LET sw == screen_width
            sh == screen_height
            iw == img_width
            ih == img_height
            cw0 == sw - 2 * (sw \div 10)
            Nearest(v, n, d) == 2 * d * v - 2 * n \in (-d)..d
        IN  \E h0 \in 0..(ih * cw0 + 1) :
               /\ Nearest(h0, ih * cw0, iw)
               /\ IF 10 * h0 > 7 * sh
                  THEN /\ Nearest(scaled_height, 7 * sh, 10)
                       /\ Nearest(scaled_width, iw * 7 * sh, 10 * ih)
                       /\ screen_margin = (sw - scaled_width) \div 2
                  ELSE /\ scaled_height = h0
                       /\ scaled_width = cw0
                       /\ screen_margin = sw \div 10

\* C3 as amended: the canvas size is that of the reference algorithm with
\* every "round" replaced by int() of the double-precision value: each of
\* canvasHeight and canvasWidth is the integer part of the exact scaled
\* value, or one less than it when the exact scaled value is an integer.
\* The first canvasHeight h0 is that of sourceHeight * canvasWidth /
\* sourceWidth; the height-limited branch is taken only when h0 >= 0.7 *
\* screenHeight and the width-limited one only when h0 <= 0.7 *
\* screenHeight; in the height-limited branch canvasHeight and canvasWidth
\* are those of 0.7 * screenHeight and of sourceWidth * 0.7 * screenHeight /
\* sourceHeight and marginPx = floor((screenWidth - canvasWidth) / 2).
C3_TruncatedCanvas ==
    pc = "binarize" =>
        LET sw == screen_width
            sh == screen_height
            iw == img_width
            ih == img_height
            cw0 == sw - 2 * (sw \div 10)
            Floor(v, n, d) == d * v <= n /\ n < d * (v + 1)
            IntPart(v, n, d) == Floor(v, n, d) \/ d * (v + 1) = n
        IN  \E h0 \in (-1)..(ih * cw0) :
               /\ IntPart(h0, ih * cw0, iw)
               /\ \/ /\ 10 * h0 >= 7 * sh
                     /\ IntPart(scaled_height, 7 * sh, 10)
                     /\ IntPart(scaled_width, iw * 7 * sh, 10 * ih)
                     /\ Floor(screen_margin, sw - scaled_width, 2)
                  \/ /\ 10 * h0 <= 7 * sh
                     /\ scaled_height = h0
                     /\ scaled_width = cw0
                     /\ Floor(screen_margin, sw, 10)
\* a canvas height of 0 although the exact scaled height is above 0.5
C3_Witness ==
    /\ pc = "binarize"
    /\ scaled_height = 0
    /\ scaled_width = screen_width
    /\ 2 * img_height * scaled_width > img_width

\* C4: the swipe draw_single_line dispatches is at least MIN_LINE_LENGTH_PX
\* long; a shorter raw segment is sent with end x = start x + the minimum
\* and its other three coordinates unchanged, a raw segment that is long
\* enough is sent unchanged.
C4_MinimumLength ==
    pc # "draw" /\ Len(Swipes) > 0 =>
        LET s == Swipes[Len(Swipes)]
            rawSq == (line.x2 - line.x1) * (line.x2 - line.x1)
                     + (line.y2 - line.y1) * (line.y2 - line.y1)
            sentSq == (s.x2 - s.x1) * (s.x2 - s.x1) + (s.y2 - s.y1) * (s.y2 - s.y1)
        IN  /\ sentSq >= MIN_LINE_LENGTH_PX * MIN_LINE_LENGTH_PX
            /\ s.x1 = line.x1 /\ s.y1 = line.y1 /\ s.y2 = line.y2
            /\ IF rawSq < MIN_LINE_LENGTH_PX * MIN_LINE_LENGTH_PX
               THEN s.x2 = line.x1 + MIN_LINE_LENGTH_PX
               ELSE s.x2 = line.x2
\* a zero-length segment was sent with end x - start x equal to the minimum
C4_Witness ==
    /\ pc = "while"
    /\ line.x1 = line.x2 /\ line.y1 = line.y2
    /\ Len(Swipes) = 1
    /\ Swipes[1].x2 - Swipes[1].x1 = MIN_LINE_LENGTH_PX

\* C5 as stated: however a dispatch fails, every segment of the image is
\* still attempted: a run that entered the drawing loop ends only after the
\* scan has yielded every maximal run of every scanned row.
C5_Orig_NoDispatchAborts ==
    LoopEntered /\ pc \in Terminal => Len(segments) = TotalRuns

\* C5 as amended: a dispatch whose adb process returns a non-zero status
\* never aborts the run: the next segment is dispatched and the run ends
\* only after every segment was dispatched, unless the adb executable cannot
\* be launched for a dispatch, which ends the run with exit status 1.
C5_NonZeroStatusContinues ==
    /\ outcome # "DispatchFailed"
    /\ firstFailed # 0 /\ pc \in Terminal =>
          \/ /\ pc = "done"
             /\ Len(Swipes) = TotalRuns
             /\ total_lines_drawn = TotalRuns
          \/ /\ pc = "exit1"
             /\ outcome = "AdapterUnavailable"
             /\ ~adbPresent
\* the first dispatch returned a non-zero status and more swipes followed
C5_Witness ==
    /\ pc = "done"
    /\ Len(Swipes) >= 3
    /\ firstFailed = 3

\* C6 as stated: a run whose image is missing or cannot be decoded executes
\* no adapter command at all.
C6_Orig_NoDeviceInteraction ==
    outcome \in {"ImageNotFound", "ImageMissing", "ImageUnreadable"} =>
        adbLog = <<>>

\* C6 as amended: a run that finds no candidate image at startup executes
\* no adapter command; a run whose image is gone at step 3 or cannot be
\* decoded at step 4 has executed the connected-devices query and the
\* screen-resolution query, in that order, and no swipe.
C6_ImageFailures ==
    /\ outcome = "ImageNotFound" => adbLog = <<>>
    /\ outcome \in {"ImageMissing", "ImageUnreadable"} =>
           adbLog = <<[cmd |-> "devices"], [cmd |-> "wm size"]>>
\* the decode failed after both queries
C6_Witness ==
    /\ pc = "returned"
    /\ outcome = "ImageUnreadable"
    /\ ~decodable
    /\ Len(adbLog) = 2

\* C7 as stated: every fatal condition is detected before the drawing loop:
\* no swipe has been dispatched in a run that found the adb executable
\* missing, or whose device list reports no device in the state "device", or
\* whose resolution output lacks the marker, does not consist of two integer
\* fields or has a width or height of 0, or whose image is missing or cannot
\* be decoded.
C7_Orig_AllFatalBeforeLoop ==
    LET noDevice ==
            ~Contains(deviceOut \o Newline, Tab \o DeviceWord \o Newline)
        badSize ==
            \/ ~sizeOut.marker
            \/ Len(sizeOut.fields) # 2
            \/ \E i \in 1..Len(sizeOut.fields) :
                   ~sizeOut.fields[i].num \/ sizeOut.fields[i].val = 0
        badImage == image_path \notin imageFiles \/ ~decodable
    IN  outcome = "AdapterUnavailable" \/ noDevice \/ badSize \/ badImage =>
            Len(Swipes) = 0

\* C7 as amended: no swipe is dispatched in a run that starts without the
\* adb executable, or whose device list reports no device in the state
\* "device", or whose resolution output lacks the marker, does not consist
\* of two integer fields or has a width or height of 0, or whose image is
\* missing or cannot be decoded; a run ended by the device, resolution or
\* image check has dispatched no swipe.  An adb executable that goes missing
\* later is found at the next adb call, also inside the drawing loop: the
\* run then ends with exit status 1 and the executable is missing.
C7_FatalBeforeLoop ==
    LET noDevice ==
            ~Contains(deviceOut \o Newline, Tab \o DeviceWord \o Newline)
        badSize ==
            \/ ~sizeOut.marker
            \/ Len(sizeOut.fields) # 2
            \/ \E i \in 1..Len(sizeOut.fields) :
                   ~sizeOut.fields[i].num \/ sizeOut.fields[i].val = 0
        badImage == image_path \notin imageFiles \/ ~decodable
    IN  /\ ~adbAtStart \/ noDevice \/ badSize \/ badImage => Len(Swipes) = 0
        /\ outcome \in {"ImageNotFound", "NoDeviceConnected",
                        "ResolutionUnavailable", "ImageMissing",
                        "ImageUnreadable"} => Len(Swipes) = 0
        /\ outcome = "AdapterUnavailable" => pc = "exit1" /\ ~adbPresent
\* a resolution with a positive width and a height of 0 was rejected
C7_Witness ==
    /\ pc = "returned"
    /\ outcome = "ResolutionUnavailable"
    /\ sizeOut.marker
    /\ Len(sizeOut.fields) = 2
    /\ sizeOut.fields[1] = Num(MaxScreenW)
    /\ sizeOut.fields[2] = Num(0)
    /\ Len(adbLog) = 2

\* C8: every swipe comes from a row r of the canvas with r mod DRAW_STEP = 0,
\* the rows of successive swipes never decrease, and two successive swipes
\* of one row have strictly increasing start columns.
C8_RasterOrder ==
    LET Row(s) == s.y1 - draw_offset_y
        Col(s) == s.x1 - draw_offset_x
    IN  /\ \A i \in 1..Len(Swipes) :
               /\ Row(Swipes[i]) % DRAW_STEP = 0
               /\ 0 <= Row(Swipes[i])
               /\ Row(Swipes[i]) < scaled_height
        /\ \A i \in 1..(Len(Swipes) - 1) :
               /\ Row(Swipes[i]) <= Row(Swipes[i + 1])
               /\ Row(Swipes[i]) = Row(Swipes[i + 1]) =>
                      Col(Swipes[i]) < Col(Swipes[i + 1])
\* two swipes of row 0, then one of row 5, over foreground rows in between
C8_Witness ==
    /\ pc = "done"
    /\ Len(Swipes) = 3
    /\ Swipes[1].y1 = Swipes[2].y1
    /\ Swipes[3].y1 = Swipes[1].y1 + DRAW_STEP
    /\ binary_image[2][1] = FG

\* C9 as stated: a run that entered the drawing loop ends in the state in
\* which the statistics are reported.
C9_Orig_ReachesStatistics ==
    LoopEntered /\ pc \in Terminal => pc = "done"

\* C9 as amended: the column index advances by one in every step of the row
\* scan that stays in the scan, a run is closed only after the column index
\* has moved past its start, and a run that entered the drawing loop
\* eventually reports the statistics, unless the adb executable cannot be
\* launched for a dispatch, which ends it with exit status 1.
C9_LoopTerminates ==
    /\ [][Loop =>
           /\ pc = "while" /\ pc' = "while" => col_idx' = col_idx + 1
           /\ pc = "inner" /\ pc' = "inner" => col_idx' = col_idx + 1
           /\ pc = "inner" /\ pc' = "draw" => col_idx' = col_idx /\ col_idx > start_col
           /\ pc = "draw" => col_idx' = col_idx ]_vars
    /\ (pc = "for") ~> (pc = "done" \/ (pc = "exit1" /\ outcome = "AdapterUnavailable"))
\* the statistics were reported after a scan of two rows
C9_Witness ==
    /\ pc = "done"
    /\ outcome = "Completed"
    /\ row_idx = 2 * DRAW_STEP
    /\ total_lines_drawn >= 2

\* C10 as stated: both endpoints of every swipe lie inside the screen.
C10_Orig_InsideScreen ==
    \A i \in 1..Len(Swipes) :
        /\ 0 <= Swipes[i].x1 /\ Swipes[i].x1 < screen_width
        /\ 0 <= Swipes[i].x2 /\ Swipes[i].x2 < screen_width
        /\ 0 <= Swipes[i].y1 /\ Swipes[i].y1 < screen_height
        /\ 0 <= Swipes[i].y2 /\ Swipes[i].y2 < screen_height

\* C10 as amended: both endpoints of every swipe have
\* x >= OFFSET_X_ADJUST = 60 and OFFSET_Y_ADJUST = -160 <= y <=
\* screenHeight - 161, with start x <= end x and equal y.
C10_SwipeRange ==
    \A i \in 1..Len(Swipes) :
        /\ OFFSET_X_ADJUST <= Swipes[i].x1
        /\ Swipes[i].x1 <= Swipes[i].x2
        /\ Swipes[i].y1 = Swipes[i].y2
        /\ OFFSET_Y_ADJUST <= Swipes[i].y1
        /\ Swipes[i].y1 <= screen_height + OFFSET_Y_ADJUST - 1
\* a swipe of the last canvas row was extended to the minimum length
C10_Witness ==
    /\ Len(Swipes) > 0
    /\ LET s == Swipes[Len(Swipes)]
       IN  /\ s.x2 = s.x1 + MIN_LINE_LENGTH_PX
           /\ s.y1 = draw_offset_y + DRAW_STEP
           /\ s.x2 >= screen_width
           /\ s.y1 < 0

====
